---- MODULE Spec2Model ----
(***************************************************************************)
(* Model of src/script.js: a tile-matching (Lianliankan) browser game.     *)
(* The state is the `state` object, the DOM facts the handlers read back   *)
(* (each tile element's class list, the board element's pointer-events),   *)
(* and the set of live intervals.  Every event handler of the page (tile   *)
(* click, interval tick, reset button) is one atomic action: JavaScript    *)
(* runs a handler to completion before the next event is dispatched.       *)
(***************************************************************************)
EXTENDS Integers, Sequences, FiniteSets, TLC

\* config.rows, config.cols and config.gameTime (8, 10 and 60 in the source),
\* scaled down so that the state space is finite and small.
Rows == 2
Cols == 2
GameTime == 2

VARIABLES
    board,          \* state.board: cell -> [type, row, col, visible]
    classList,      \* cell -> class names of the tile element of that cell
    selectedTile,   \* state.selectedTile: null or [element, row, col, type]
    score,          \* state.score
    timeLeft,       \* state.timeLeft
    timerId,        \* state.timerId
    tilesRemaining, \* state.tilesRemaining
    intervals,      \* ids of the intervals (setInterval) that are live
    pointerEvents,  \* gameBoardElement.style.pointerEvents
    flashes,        \* the flashBorder calls of the latest handler, in order
    query,          \* the latest call of a match/path query and its result
    last            \* the latest event: handler, target, branch taken, outcome

vars == <<board, classList, selectedTile, score, timeLeft, timerId,
          tilesRemaining, intervals, pointerEvents, flashes, query, last>>

\* ---------------------------------------------------------------- config
tileTypes ==
    <<"apple", "banana", "grape", "strawberry", "watermelon", "orange",
      "lemon", "cherry", "peach", "pineapple", "kiwi", "coconut">>

config ==
    [rows |-> Rows, cols |-> Cols, tileTypes |-> tileTypes, gameTime |-> GameTime]

\* JavaScript values that are no tile, no element and no id.
undefined == "undefined"
NoElement == <<-1, -1>>
null == [element |-> NoElement, row |-> -1, col |-> -1, type |-> "null"]
NoTimer == 0

Cells == (0 .. config.rows - 1) \X (0 .. config.cols - 1)

\* ------------------------------------------------------------ the arrays
\* A JavaScript array is a function on 0 .. length-1; reading past the end
\* yields undefined.
ArrLen(array) == Cardinality(DOMAIN array)
ArrGet(array, i) == IF i \in DOMAIN array THEN array[i] ELSE undefined

\* The draws of Math.random in one shuffle of an array of n elements:
\* for each i the index j = floor(random * (i + 1)), 0 <= j <= i.
RandomDraws(n) == { rnd \in [1 .. n - 1 -> 0 .. n - 1] : \A i \in 1 .. n - 1 : rnd[i] <= i }

RECURSIVE shuffleFrom(_, _, _)
shuffleFrom(array, i, rnd) ==
    IF i > 0
    THEN shuffleFrom([array EXCEPT ![i] = array[rnd[i]], ![rnd[i]] = array[i]],
                     i - 1, rnd)
    ELSE array

shuffleArray(array, rnd) == shuffleFrom(array, ArrLen(array) - 1, rnd)

totalTiles == config.rows * config.cols

\* The pool before shuffling: pair i has type tileTypes[i % length]; an odd
\* board gets the empty array.
tilePool ==
    IF totalTiles % 2 # 0
    THEN [i \in {} |-> undefined]
    ELSE [i \in 0 .. totalTiles - 1 |-> config.tileTypes[((i \div 2) % Len(config.tileTypes)) + 1]]

generateTiles(rnd) == shuffleArray(tilePool, rnd)

\* createBoard: the board of a fresh game and the class list of its elements.
createBoard(tiles) ==
    [k \in Cells |->
        [type |-> ArrGet(tiles, k[1] * config.cols + k[2]),
         row |-> k[1], col |-> k[2], visible |-> TRUE]]

freshClassList == [k \in Cells |-> {"tile"}]

\* ------------------------------------------------------------ the timers
\* setInterval returns an id that no live interval has and that differs from
\* the only id the program still holds.
NewTimerId(live, held) ==
    CHOOSE i \in 1 .. Cardinality(live) + 2 : i \notin live /\ i # held

clearInterval(live, id) == live \ {id}

\* ------------------------------------------------------------ the queries
\* A tile as the handler passes it: { element, row, col, type }.  The element
\* of a cell is named by the cell; a coordinate outside the board has no type.
Tile(b, p) ==
    [element |-> p, row |-> p[1], col |-> p[2],
     type |-> IF p \in Cells THEN b[p].type ELSE undefined]

NoQuery ==
    [fn |-> "none", tile1 |-> null, tile2 |-> null, result |-> FALSE,
     threw |-> "none", nth |-> 0]

\* The stub of the match check that only admits adjacent tiles, as its
\* comment describes it.
isMatchPossibleAdjacent(tile1, tile2) ==
    \/ tile1.row = tile2.row /\ tile1.col - tile2.col \in {-1, 1}
    \/ tile1.col = tile2.col /\ tile1.row - tile2.row \in {-1, 1}

\* isMatchPossible: the stub accepts every pair.
isMatchPossible(tile1, tile2) == TRUE

\* isPathValid: the placeholder rejects every pair.
isPathValid(tile1, tile2) == FALSE

\* The check named fn, applied.
Check(fn, tile1, tile2) ==
    IF fn = "isMatchPossible"
    THEN isMatchPossible(tile1, tile2)
    ELSE isPathValid(tile1, tile2)

\* The record of one call of the check named fn; neither check has a throw
\* statement or reads a field of its arguments.
QueryOf(fn, tile1, tile2, nth) ==
    [fn |-> fn, tile1 |-> tile1, tile2 |-> tile2,
     result |-> Check(fn, tile1, tile2), threw |-> "none", nth |-> nth]

\* ------------------------------------------------------------- the flash
\* flashBorder does nothing for a missing element; otherwise the element
\* shows the colour (and a timeout restores the border 300 ms later).
flashBorder(log, element, color) ==
    IF element = NoElement THEN log ELSE Append(log, <<element, color>>)

\* `flashBorder(state.selectedTile.element, color)` when state.selectedTile
\* holds sel: reading .element of null throws before flashBorder is entered.
Throws(sel) == sel = null
flashSelected(log, sel, color) ==
    IF Throws(sel) THEN log ELSE flashBorder(log, sel.element, color)
errorOf(sel) == IF Throws(sel) THEN "TypeError" ELSE "none"

Event(op, cell, branch, called, error) ==
    [op |-> op, cell |-> cell, branch |-> branch, called |-> called, error |-> error]

\* ----------------------------------------------------------- the classes
\* Line 105: a hidden or selected element ignores the click.
isIgnored(classes) == "hidden" \in classes \/ "selected" \in classes

addClass(cl, element, name) == [cl EXCEPT ![element] = @ \cup {name}]
removeClass(cl, element, name) == [cl EXCEPT ![element] = @ \ {name}]

\* Lines 159-160 with the first tile left selected.
moveSelectionKeepFirst(cl, first, clicked) == addClass(cl, clicked, "selected")

\* Lines 159-160: the mark moves from the first tile to the clicked one.
moveSelection(cl, first, clicked) ==
    addClass(removeClass(cl, first, "selected"), clicked, "selected")

\* Lines 131-132 and 142: both elements hidden, the first one unmarked.
hideElements(cl, first, clicked) ==
    removeClass(addClass(addClass(cl, first, "hidden"), clicked, "hidden"),
                first, "selected")

\* Elimination that clears the flag of the clicked cell only.
hidePairSecondOnly(b, cellA, cellB) ==
    [b EXCEPT ![cellB] = [@ EXCEPT !.visible = FALSE]]

\* Elimination that takes the tiles off the grid instead of hiding them.
hidePairRemoving(b, cellA, cellB) ==
    [k \in Cells |->
        IF k = cellA \/ k = cellB
        THEN [b[k] EXCEPT !.visible = FALSE, !.type = undefined]
        ELSE b[k]]

\* Elimination that hides the elements and leaves the flags of the board.
hidePairNone(b, cellA, cellB) == b

\* Lines 133-134: the visible flags of the two cells are cleared.
hidePair(b, cellA, cellB) ==
    [k \in Cells |->
        IF k = cellA \/ k = cellB THEN [b[k] EXCEPT !.visible = FALSE] ELSE b[k]]

\* stopGameTimer, winGame and loseGame without the clearInterval.
stopGameTimerNoop(live, id) == live
winGameKeepsTimer(live, id) == live
loseGameKeepsTimer(live, id) == live

\* stopGameTimer, winGame and loseGame, by what they do to the intervals.
stopGameTimer(live, id) == clearInterval(live, id)
winGame(live, id) == stopGameTimer(live, id)
loseGame(live, id) == stopGameTimer(live, id)

\* ------------------------------------------------------------------ Init
\* The state after the script has run: the `state` literal, then
\* initializeGame -> resetGame.
Init ==
    \E rnd \in RandomDraws(ArrLen(tilePool)) :
        /\ board = createBoard(generateTiles(rnd))
        /\ classList = freshClassList
        /\ selectedTile = null
        /\ score = 0
        /\ timeLeft = config.gameTime
        /\ timerId = NewTimerId({}, NoTimer)
        /\ tilesRemaining = config.rows * config.cols
        /\ intervals = {NewTimerId({}, NoTimer)}
        /\ pointerEvents = "auto"
        /\ flashes = <<>>
        /\ query = NoQuery
        /\ last = Event("reset", NoElement, "reset", "none", "none")

\* ------------------------------------------------------- handleTileClick
\* The click handler of the tile element at cell clickedElement; fn names
\* the match check it calls.  A click is delivered only while the board
\* element takes pointer events.
handleTileClickWith(clickedElement, fn) ==
    LET row == board[clickedElement].row
        col == board[clickedElement].col
        type == board[clickedElement].type
        currentTile ==
            [element |-> clickedElement, row |-> row, col |-> col, type |-> type]
        first == selectedTile.element
        firstCell == <<selectedTile.row, selectedTile.col>>
    IN
    /\ pointerEvents = "auto"
    /\ IF isIgnored(classList[clickedElement])
       THEN \* lines 105-107: nothing is done
            /\ last' = Event("click", clickedElement, "ignored", "none", "none")
            /\ flashes' = <<>>
            /\ query' = NoQuery
            /\ UNCHANGED <<board, classList, selectedTile, score, timeLeft,
                           timerId, tilesRemaining, intervals, pointerEvents>>
       ELSE IF selectedTile = null
       THEN \* lines 114-117: first click
            /\ classList' = addClass(classList, clickedElement, "selected")
            /\ selectedTile' = currentTile
            /\ last' = Event("click", clickedElement, "select", "none", "none")
            /\ flashes' = <<>>
            /\ query' = NoQuery
            /\ UNCHANGED <<board, score, timeLeft, timerId, tilesRemaining,
                           intervals, pointerEvents>>
       ELSE IF selectedTile.element = clickedElement
       THEN \* lines 120-123: the same tile again
            /\ classList' = removeClass(classList, clickedElement, "selected")
            /\ selectedTile' = null
            /\ last' = Event("click", clickedElement, "deselect", "none", "none")
            /\ flashes' = <<>>
            /\ query' = NoQuery
            /\ UNCHANGED <<board, score, timeLeft, timerId, tilesRemaining,
                           intervals, pointerEvents>>
       ELSE IF selectedTile.type = type
       THEN /\ query' = QueryOf(fn, selectedTile, currentTile, 0)
            /\ IF Check(fn, selectedTile, currentTile)
               THEN \* lines 130-148: eliminate the pair
                    /\ classList' = hideElements(classList, first, clickedElement)
                    /\ board' = hidePair(board, firstCell, <<row, col>>)
                    /\ score' = score + 10
                    /\ tilesRemaining' = tilesRemaining - 2
                    /\ selectedTile' = null
                    /\ flashes' = <<>>
                    /\ IF tilesRemaining - 2 = 0
                       THEN /\ intervals' = winGame(intervals, timerId)
                            /\ last' = Event("click", clickedElement, "eliminate",
                                             "winGame", "none")
                       ELSE /\ intervals' = intervals
                            /\ last' = Event("click", clickedElement, "eliminate",
                                             "none", "none")
                    /\ UNCHANGED <<timeLeft, timerId, pointerEvents>>
               ELSE \* lines 150-155: the selection is set to null, and only
                    \* then is its element read
                    /\ classList' = removeClass(classList, first, "selected")
                    /\ selectedTile' = null
                    /\ flashes' =
                         flashSelected(flashBorder(<<>>, clickedElement, "red"),
                                       null, "red")
                    /\ last' = Event("click", clickedElement, "reject", "none",
                                     errorOf(null))
                    /\ UNCHANGED <<board, score, timeLeft, timerId,
                                   tilesRemaining, intervals, pointerEvents>>
       ELSE \* lines 158-164: another type, the selection moves
            /\ classList' = moveSelection(classList, first, clickedElement)
            /\ selectedTile' = currentTile
            /\ flashes' =
                 flashSelected(flashBorder(<<>>, clickedElement, "orange"),
                               currentTile, "orange")
            /\ last' = Event("click", clickedElement, "switch", "none",
                             errorOf(currentTile))
            /\ query' = NoQuery
            /\ UNCHANGED <<board, score, timeLeft, timerId, tilesRemaining,
                           intervals, pointerEvents>>

\* The handler as shipped: the check is isMatchPossible (line 129).
handleTileClick(clickedElement) ==
    handleTileClickWith(clickedElement, "isMatchPossible")

\* The handler with the check that the TODO of lines 128 and 183 names.
handleTileClickTodo(clickedElement) ==
    handleTileClickWith(clickedElement, "isPathValid")

\* updateTimer with a loseGame that leaves the board clickable.
updateTimerKeepsClicks(id) ==
    /\ id \in intervals
    /\ timeLeft' = timeLeft - 1
    /\ IF timeLeft - 1 <= 0
       THEN /\ intervals' = loseGame(intervals, timerId)
            /\ last' = Event("tick", NoElement, "tick", "loseGame", "none")
       ELSE /\ intervals' = intervals
            /\ last' = Event("tick", NoElement, "tick", "none", "none")
    /\ flashes' = <<>>
    /\ query' = NoQuery
    /\ UNCHANGED <<board, classList, selectedTile, score, timerId,
                   tilesRemaining, pointerEvents>>

\* ----------------------------------------------------------- updateTimer
\* One firing of the live interval id: updateTimer, and loseGame at zero.
updateTimer(id) ==
    /\ id \in intervals
    /\ timeLeft' = timeLeft - 1
    /\ IF timeLeft - 1 <= 0
       THEN /\ intervals' = loseGame(intervals, timerId)
            /\ pointerEvents' = "none"
            /\ last' = Event("tick", NoElement, "tick", "loseGame", "none")
       ELSE /\ intervals' = intervals
            /\ pointerEvents' = pointerEvents
            /\ last' = Event("tick", NoElement, "tick", "none", "none")
    /\ flashes' = <<>>
    /\ query' = NoQuery
    /\ UNCHANGED <<board, classList, selectedTile, score, timerId, tilesRemaining>>

\* resetGame without line 273: the selection survives the reset.
resetGameKeepsSelection ==
    \E rnd \in RandomDraws(ArrLen(tilePool)) :
        LET stopped == stopGameTimer(intervals, timerId)
            cleared == clearInterval(stopped, timerId)
            id == NewTimerId(cleared, timerId)
        IN
        /\ score' = 0
        /\ selectedTile' = selectedTile
        /\ pointerEvents' = "auto"
        /\ board' = createBoard(generateTiles(rnd))
        /\ classList' = freshClassList
        /\ tilesRemaining' = config.rows * config.cols
        /\ timeLeft' = config.gameTime
        /\ timerId' = id
        /\ intervals' = cleared \cup {id}
        /\ flashes' = <<>>
        /\ query' = NoQuery
        /\ last' = Event("reset", NoElement, "reset", "none", "none")

\* ------------------------------------------------------------- resetGame
\* The reset button: stopGameTimer, a fresh board, startGameTimer.
resetGame ==
    \E rnd \in RandomDraws(ArrLen(tilePool)) :
        LET stopped == stopGameTimer(intervals, timerId)
            cleared == clearInterval(stopped, timerId)
            id == NewTimerId(cleared, timerId)
        IN
        /\ score' = 0
        /\ selectedTile' = null
        /\ pointerEvents' = "auto"
        /\ board' = createBoard(generateTiles(rnd))
        /\ classList' = freshClassList
        /\ tilesRemaining' = config.rows * config.cols
        /\ timeLeft' = config.gameTime
        /\ timerId' = id
        /\ intervals' = cleared \cup {id}
        /\ flashes' = <<>>
        /\ query' = NoQuery
        /\ last' = Event("reset", NoElement, "reset", "none", "none")

\* ------------------------------------------------------------------ Spec
\* The page as shipped: clicks, interval firings and resets in any order.
Next ==
    \/ \E k \in Cells : handleTileClick(k)
    \/ \E id \in intervals : updateTimer(id)
    \/ resetGame

Spec == Init /\ [][Next]_vars

\* The page with isPathValid as the gate of the click handler.
NextTodo ==
    \/ \E k \in Cells : handleTileClickTodo(k)
    \/ \E id \in intervals : updateTimer(id)
    \/ resetGame

SpecTodo == Init /\ [][NextTodo]_vars

\* ================================================================ claims
\* Vocabulary of the claims.
ClickedOn(k) == last'.op = "click" /\ last'.cell = k
SelectedCell == <<selectedTile.row, selectedTile.col>>
Invisible(b) == { k \in Cells : ~b[k].visible }
Marked(cl, name) == { k \in Cells : name \in cl[k] }
Abs(n) == IF n < 0 THEN -n ELSE n

\* A second click on another, non-hidden tile of the type of the selection.
SameTypeSecondClick(k) ==
    /\ ClickedOn(k)
    /\ selectedTile # null
    /\ selectedTile.element # k
    /\ "hidden" \notin classList[k]
    /\ selectedTile.type = board[k].type

\* The grid with its one-cell empty border, and the connections with at most
\* two turns through empty cells that a path search is asked to find.
Padded == (-1 .. config.rows) \X (-1 .. config.cols)
Empty(b, p) == p \notin Cells \/ ~b[p].visible
Between(p, q) ==
    { x \in Padded :
        \/ /\ p[1] = q[1] /\ x[1] = p[1]
           /\ ((p[2] < x[2] /\ x[2] < q[2]) \/ (q[2] < x[2] /\ x[2] < p[2]))
        \/ /\ p[2] = q[2] /\ x[2] = p[2]
           /\ ((p[1] < x[1] /\ x[1] < q[1]) \/ (q[1] < x[1] /\ x[1] < p[1])) }
ClearLine(b, p, q) ==
    /\ p # q
    /\ (p[1] = q[1] \/ p[2] = q[2])
    /\ \A x \in Between(p, q) : Empty(b, x)
Segment(b, p, q) == p = q \/ ClearLine(b, p, q)
Connectable(b, a, c) ==
    \E p, q \in Padded :
        /\ (p = a \/ Empty(b, p))
        /\ (q = c \/ Empty(b, q))
        /\ Segment(b, a, p) /\ Segment(b, p, q) /\ Segment(b, q, c)

\* C1: in the shipped handler a second click on another non-hidden tile of
\* the selected type always eliminates the pair: both cells invisible, score
\* up by 10, tilesRemaining down by 2, selection cleared, wherever the tiles
\* are; the check called is isMatchPossible, which is true of every pair of
\* tiles, where isPathValid is false of every pair.
C1_Accepts(k) ==
    /\ ~board'[k].visible
    /\ ~board'[SelectedCell].visible
    /\ score' = score + 10
    /\ tilesRemaining' = tilesRemaining - 2
    /\ selectedTile' = null
    /\ query'.fn = "isMatchPossible"
    /\ \A p, q \in Padded :
          /\ isMatchPossible(Tile(board, p), Tile(board, q))
          /\ ~isPathValid(Tile(board, p), Tile(board, q))
C1_AnySameTypePairIsEliminated ==
    [][\A k \in Cells : SameTypeSecondClick(k) => C1_Accepts(k)]_vars

\* C1 witness: a pair on a diagonal was eliminated while both cells between
\* its corners still held tiles.
C1_Witness ==
    /\ last.branch = "eliminate"
    /\ query.result
    /\ Abs(query.tile1.row - query.tile2.row) = 1
    /\ Abs(query.tile1.col - query.tile2.col) = 1
    /\ board[<<query.tile1.row, query.tile2.col>>].visible
    /\ board[<<query.tile2.row, query.tile1.col>>].visible
    /\ tilesRemaining = totalTiles - 2

\* C2 (as claimed): when no connection with at most two turns joins two
\* visible tiles of one type, the check reports no path and a second click
\* on the pair eliminates nothing.
C2_BlockedPairIsKept ==
    [][\A k \in Cells :
          (SameTypeSecondClick(k) /\ ~Connectable(board, SelectedCell, k))
          => /\ ~query'.result
             /\ board'[k].visible
             /\ board'[SelectedCell].visible]_vars

\* C6: elimination comes after the answer of the match query and is one
\* step for every other event: between events each type has an even number
\* of invisible cells, the hidden marks, the score and tilesRemaining agree
\* with the visible flags, and the step that clears flags clears exactly the
\* two flags of the pair the query accepted, with score and tilesRemaining
\* updated in that same step.
C6_NoHalfEliminatedPair ==
    /\ \A k \in Cells :
          Cardinality({ x \in Invisible(board) : board[x].type = board[k].type }) % 2 = 0
    /\ Marked(classList, "hidden") = Invisible(board)
    /\ score = 5 * Cardinality(Invisible(board))
    /\ tilesRemaining = totalTiles - Cardinality(Invisible(board))
C6_EliminationStep ==
    (last'.op # "reset" /\ Invisible(board') # Invisible(board))
    => /\ query'.fn # "none" /\ query'.result
       /\ query'.tile1.element # query'.tile2.element
       /\ Invisible(board') =
             Invisible(board) \cup {query'.tile1.element, query'.tile2.element}
       /\ {query'.tile1.element, query'.tile2.element} \cap Invisible(board) = {}
       /\ score' = score + 10
       /\ tilesRemaining' = tilesRemaining - 2
C6_EliminationIsAtomic ==
    []C6_NoHalfEliminatedPair /\ [][C6_EliminationStep]_vars

\* C6 witness: a timer tick observes the board after one pair was eliminated.
C6_Witness ==
    /\ last.op = "tick"
    /\ Cardinality(Invisible(board)) = 2
    /\ score = 10

\* C7: at most one tile is selected: state.selectedTile is null and no
\* element is marked selected, or it is the tile of one cell of the current
\* board and that element alone is marked selected.
C7_AtMostOneSelected ==
    \/ selectedTile = null /\ Marked(classList, "selected") = {}
    \/ /\ selectedTile.element \in Cells
       /\ selectedTile = Tile(board, selectedTile.element)
       /\ Marked(classList, "selected") = {selectedTile.element}

\* C7 witness: the selection has moved from one tile to a tile of another type.
C7_Witness ==
    /\ last.branch = "switch"
    /\ selectedTile # null
    /\ selectedTile.element = last.cell

\* C8: within a game the board changes only by elimination: no step but a
\* reset changes a cell's type or position, a visible flag only goes from
\* true to false and only in the eliminating branch of the click handler;
\* every other click and every tick leaves the board as it is.
C8_Step ==
    last'.op # "reset"
    => /\ DOMAIN board' = DOMAIN board
       /\ \A k \in Cells :
             /\ board'[k].type = board[k].type
             /\ board'[k].row = board[k].row
             /\ board'[k].col = board[k].col
             /\ board'[k].visible => board[k].visible
       /\ board' # board => (last'.op = "click" /\ last'.branch = "eliminate")
C8_BoardChangesOnlyByElimination == [][C8_Step]_vars

\* C8 witness: with one pair eliminated, a tile of the other pair is selected.
C8_Witness ==
    /\ last.branch = "select"
    /\ Cardinality(Invisible(board)) = 2
    /\ board[last.cell].visible

\* C9 (as claimed): a click on the selected tile cancels the selection:
\* afterwards state.selectedTile is null and no element is marked selected.
C9_SecondClickDeselects ==
    [][\A k \in Cells :
          (ClickedOn(k) /\ selectedTile # null /\ selectedTile.element = k)
          => (selectedTile' = null /\ Marked(classList', "selected") = {})]_vars

\* ============================================================ SpecQuery
\* The two checks called directly, on every board a game can show.
\* The coordinates of a call: the cells, one coordinate whose row and one
\* whose column is out of range.
QueryCoords == Cells \cup {<<config.rows, 0>>, <<0, config.cols>>}

\* The first cell of a set in row-major order, as a set of at most one cell.
FirstOf(S) ==
    { k \in S : \A x \in S : k[1] * config.cols + k[2] <= x[1] * config.cols + x[2] }

\* The boards of a game in progress: whole pairs eliminated (an even number
\* of invisible cells of each type), none or the first visible tile selected,
\* no tick yet; the interval is cleared once the last pair is gone.
InitQuery ==
    \E rnd \in RandomDraws(ArrLen(tilePool)) :
    \E H \in SUBSET Cells :
    \E s \in FirstOf(Cells \ H) \cup {NoElement} :
        LET b0 == createBoard(generateTiles(rnd)) IN
        /\ \A k \in Cells :
              Cardinality({ x \in H : b0[x].type = b0[k].type }) % 2 = 0
        /\ board = [k \in Cells |->
                      IF k \in H THEN [b0[k] EXCEPT !.visible = FALSE] ELSE b0[k]]
        /\ classList = [k \in Cells |->
                          {"tile"} \cup (IF k \in H THEN {"hidden"} ELSE {})
                                   \cup (IF k = s THEN {"selected"} ELSE {})]
        /\ selectedTile = IF s = NoElement THEN null ELSE Tile(b0, s)
        /\ score = 5 * Cardinality(H)
        /\ tilesRemaining = totalTiles - Cardinality(H)
        /\ timeLeft = config.gameTime
        /\ timerId = NewTimerId({}, NoTimer)
        /\ intervals = IF totalTiles - Cardinality(H) = 0
                       THEN {} ELSE {NewTimerId({}, NoTimer)}
        /\ pointerEvents = "auto"
        /\ flashes = <<>>
        /\ query = NoQuery
        /\ last = IF s # NoElement
                  THEN Event("click", s, "select", "none", "none")
                  ELSE IF H = {}
                  THEN Event("reset", NoElement, "reset", "none", "none")
                  ELSE Event("click", CHOOSE k \in H : TRUE, "ignored", "none", "none")

\* A call of a check that eliminates the pair it was asked about.
callQueryEliminating(fn, a, b) ==
    /\ query' = QueryOf(fn, Tile(board, a), Tile(board, b), 1 - query.nth)
    /\ last' = Event("query", NoElement, fn, "none", "none")
    /\ board' = [k \in Cells |->
                   IF k = a \/ k = b THEN [board[k] EXCEPT !.visible = FALSE]
                   ELSE board[k]]
    /\ UNCHANGED <<classList, selectedTile, score, timeLeft, timerId,
                   tilesRemaining, intervals, pointerEvents, flashes>>

\* One call of the check named fn with the tiles at a and b: the bodies of
\* isMatchPossible and isPathValid log to the console and return.
callQuery(fn, a, b) ==
    /\ query' = QueryOf(fn, Tile(board, a), Tile(board, b), 1 - query.nth)
    /\ last' = Event("query", NoElement, fn, "none", "none")
    /\ UNCHANGED <<board, classList, selectedTile, score, timeLeft, timerId,
                   tilesRemaining, intervals, pointerEvents, flashes>>

callIsMatchPossible(a, b) == callQuery("isMatchPossible", a, b)
callIsPathValid(a, b) == callQuery("isPathValid", a, b)

\* The caller of SpecQuery asks one question of a board, any number of times.
MayAsk(fn, a, b) ==
    \/ query.fn = "none"
    \/ query.fn = fn /\ query.tile1.element = a /\ query.tile2.element = b

NextQuery ==
    \/ \E a, b \in QueryCoords :
          MayAsk("isMatchPossible", a, b) /\ callIsMatchPossible(a, b)
    \/ \E a, b \in QueryCoords :
          MayAsk("isPathValid", a, b) /\ callIsPathValid(a, b)

SpecQuery == InitQuery /\ [][NextQuery]_vars

\* The endpoints of the latest query.
QueryA == query.tile1.element
QueryB == query.tile2.element

\* The inputs a path query must refuse.
InvalidInput(b, tile1, tile2) ==
    \/ tile1.element = tile2.element
    \/ tile1.element \notin Cells
    \/ tile2.element \notin Cells
    \/ tile1.type # tile2.type
    \/ ~b[tile1.element].visible
    \/ ~b[tile2.element].visible

\* C3 (as claimed): the path check succeeds for every two distinct visible
\* cells of one type that share a row or a column with only empty cells
\* strictly between them.
C3_ClearLineHasPath ==
    ( /\ query.fn = "isPathValid"
      /\ ~InvalidInput(board, query.tile1, query.tile2)
      /\ ClearLine(board, QueryA, QueryB) )
    => (query.result /\ query.threw = "none")

\* C4: a match or path query changes nothing: the board, the marks, the
\* selection, the score, tilesRemaining and the timer are as before the call,
\* and a second call with the same board and endpoints gives the same answer.
C4_Step ==
    last'.op = "query"
    => /\ UNCHANGED <<board, classList, selectedTile, score, tilesRemaining,
                      timeLeft, timerId, intervals, pointerEvents>>
       /\ ( /\ last.op = "query"
            /\ query'.fn = query.fn
            /\ query'.tile1 = query.tile1
            /\ query'.tile2 = query.tile2 )
          => (query'.result = query.result /\ query'.threw = query.threw)
C4_QueryHasNoSideEffects == [][C4_Step]_vars

\* C4 witness: the same query was made twice in a row on a board with an
\* eliminated pair and a selected tile.
C4_Witness ==
    /\ last.op = "query"
    /\ query.nth = 0
    /\ QueryA \in Cells /\ QueryB \in Cells /\ QueryA # QueryB
    /\ Invisible(board) # {}
    /\ selectedTile # null

\* C5 (as claimed): a query with invalid input (identical endpoints, a
\* coordinate out of range, endpoints of different types, an invisible
\* endpoint) raises InvalidArgument and gets no ordinary answer.
C5_InvalidInputIsAnError ==
    (query.fn # "none" /\ InvalidInput(board, query.tile1, query.tile2))
    => query.threw = "InvalidArgument"

\* C10 (as claimed): when the second click is on another tile of the selected
\* type and the match check answers that no path exists, the handler ends
\* without an error: the first tile is unmarked, state.selectedTile is null,
\* both tiles are flashed red, and the board, the score and tilesRemaining
\* are unchanged.
C10_Rejected(k) ==
    /\ last'.error = "none"
    /\ "selected" \notin classList'[selectedTile.element]
    /\ selectedTile' = null
    /\ { flashes'[i] : i \in DOMAIN flashes' } =
          { <<k, "red">>, <<selectedTile.element, "red">> }
    /\ UNCHANGED <<board, score, tilesRemaining>>
C11_Moved(k) ==
    /\ "selected" \notin classList'[selectedTile.element]
    /\ "selected" \in classList'[k]
    /\ selectedTile' = Tile(board, k)
    /\ UNCHANGED <<board, score, tilesRemaining>>
C11_OtherTypeMovesSelection ==
    [][\A k \in Cells :
          ( /\ ClickedOn(k)
            /\ selectedTile # null
            /\ "hidden" \notin classList[k]
            /\ selectedTile.type # board[k].type )
          => C11_Moved(k)]_vars

\* C11 witness: the selection has moved to a tile of another type that was
\* clicked as the second one; that tile alone is marked and was flashed.
C11_Witness ==
    /\ last.op = "click" /\ last.branch = "switch"
    /\ Marked(classList, "selected") = {last.cell}
    /\ selectedTile = Tile(board, last.cell)
    /\ Len(flashes) > 0

\* C12: the countdown stays within 0 .. gameTime; a tick takes exactly 1 off
\* timeLeft; loseGame runs on the tick that brings timeLeft to 0 and on no
\* other; at 0 no interval is left to tick before a reset.
C12_InRange ==
    /\ timeLeft \in 0 .. config.gameTime
    /\ timeLeft = 0 => intervals = {}
    /\ last.called = "loseGame" => (last.op = "tick" /\ timeLeft = 0)
C12_Tick ==
    /\ last'.op = "tick"
       => /\ timeLeft' = timeLeft - 1
          /\ last'.called = "loseGame" <=> timeLeft' = 0
    /\ (timeLeft = 0 /\ last'.op # "reset") => timeLeft' = 0
C12_CountdownStopsAtZero == []C12_InRange /\ [][C12_Tick]_vars

\* C12 witness: the tick that brought timeLeft to 0 has run loseGame.
C12_Witness ==
    /\ last.op = "tick"
    /\ last.called = "loseGame"
    /\ timeLeft = 0
    /\ intervals = {}

\* C13: once the game is lost the board takes no clicks: until the next
\* reset no click is delivered and the selection, the visible flags, the
\* score and tilesRemaining stay as they are; a reset takes clicks again.
ClickEnabled == ENABLED (\E k \in Cells : handleTileClick(k))
C13_Lost ==
    /\ timeLeft = 0 => (pointerEvents = "none" /\ ~ClickEnabled)
    /\ last.op = "reset" => (pointerEvents = "auto" /\ ClickEnabled)
C13_Frozen ==
    (timeLeft = 0 /\ last'.op # "reset")
    => UNCHANGED <<selectedTile, board, classList, score, tilesRemaining>>
C13_NoClicksAfterLoss == []C13_Lost /\ [][C13_Frozen]_vars

\* C13 witness: the time ran out in the middle of a game, with one pair
\* eliminated and a tile selected.
C13_Witness ==
    /\ timeLeft = 0
    /\ pointerEvents = "none"
    /\ selectedTile # null
    /\ Invisible(board) # {}

\* C14: whatever the state before it, a reset leaves a fresh game: score 0,
\* no selection and no mark, every cell visible, tilesRemaining = rows*cols,
\* timeLeft = gameTime, clicks taken and the countdown running.
C14_Fresh ==
    /\ score = 0
    /\ selectedTile = null
    /\ \A k \in Cells : board[k].visible /\ classList[k] = {"tile"}
    /\ tilesRemaining = config.rows * config.cols
    /\ timeLeft = config.gameTime
    /\ pointerEvents = "auto"
    /\ timerId \in intervals
C14_ResetGivesFreshGame == [][last'.op = "reset" => C14_Fresh']_vars

\* C14 witness: the reset button was pressed (the interval is not the one
\* of the page load) and the game is fresh.
C14_Witness ==
    /\ last.op = "reset"
    /\ timerId # NewTimerId({}, NoTimer)
    /\ C14_Fresh

\* C15: at most one interval is live at any time, and it is the one whose id
\* state.timerId holds; none is live after a win or a loss.
C15_AtMostOneInterval ==
    /\ Cardinality(intervals) <= 1
    /\ intervals \subseteq {timerId}
    /\ (tilesRemaining = 0 \/ timeLeft = 0) => intervals = {}
    /\ last.called \in {"winGame", "loseGame"} => intervals = {}

\* C15 witness: after a reset by the button the one live interval has ticked.
C15_Witness ==
    /\ last.op = "tick"
    /\ timerId # NewTimerId({}, NoTimer)
    /\ intervals = {timerId}

\* C16: winGame runs in the elimination step that leaves no visible cell and
\* in no other step; it clears the interval, so that timeLeft stays as it is
\* until a reset.
C16_WonState ==
    /\ last.called = "winGame"
       => /\ last.op = "click" /\ last.branch = "eliminate"
          /\ Invisible(board) = Cells
          /\ tilesRemaining = 0
    /\ (last.branch = "eliminate" /\ Invisible(board) = Cells)
       => last.called = "winGame"
    /\ Invisible(board) = Cells => intervals = {}
C16_TimeStands ==
    (Invisible(board) = Cells /\ last'.op # "reset") => timeLeft' = timeLeft
C16_WinExactlyWhenBoardIsEmpty == []C16_WonState /\ [][C16_TimeStands]_vars

\* C16 witness: the last pair went after one tick, and winGame has run.
C16_Witness ==
    /\ last.called = "winGame"
    /\ Invisible(board) = Cells
    /\ timeLeft = config.gameTime - 1

\* C17: tilesRemaining is the number of cells whose visible flag is true, and
\* score is 10 per pair eliminated since the reset, 5 * (rows*cols -
\* tilesRemaining).
C17_CountersMatchBoard ==
    /\ tilesRemaining = Cardinality({ k \in Cells : board[k].visible })
    /\ score = 5 * (config.rows * config.cols - tilesRemaining)
    /\ 2 * score = 10 * Cardinality(Invisible(board))

\* C17 witness: two pairs were eliminated in this game.
C17_Witness ==
    /\ score = 20
    /\ tilesRemaining = config.rows * config.cols - 4
    /\ Cardinality(Invisible(board)) = 4

====
